---- MODULE Spec2Model ----
(***************************************************************************)
(* ExampleList (app/frontend/src/components/Example/ExampleList.tsx): a    *)
(* stateless view over the module-level array EXAMPLES.  Each render maps  *)
(* the array to one <li> per record, holding an <Example> that receives    *)
(* the record's text and value and the caller's onExampleClicked callback. *)
(*                                                                         *)
(* The child component Example (./Example) is imported, not defined, by   *)
(* this file; its label and its click handler are modelled from the        *)
(* written specification (ExampleLabel, ExampleOnClick, Click).            *)
(*                                                                         *)
(* renderLog and activations are history variables: the callbacks passed   *)
(* to the successive renders and the items the user activated.  calls and  *)
(* uncaught are what the embedding application observes: the invocations   *)
(* of its callback and the failures that reach its error boundary.         *)
(***************************************************************************)
EXTENDS Naturals, Sequences, FiniteSets

VARIABLES examples, dom, renderLog, calls, activations, uncaught

vars == <<examples, dom, renderLog, calls, activations, uncaught>>

\* Bounds of the exploration.
MaxRenders == 2
MaxCalls == 3
MaxLen == 2

(***************************************************************************)
(* Data                                                                    *)
(***************************************************************************)

\* EXAMPLES with its third record a copy of the first.
EXAMPLES_duplicate ==
  <<
    [text  |-> "Can you share any success stories or case studies of your digital transformation solutions in action? How did your company help a client achieve their goals through innovative technological advancements?",
     value |-> "Can you share any success stories or case studies of your digital transformation solutions in action? How did your company help a client achieve their goals through innovative technological advancements?"],
    [text  |-> "Do you have any references or testimonials from previous clients who have undergone digital transformation with your company? What were their specific challenges, and how did your solutions address and overcome those obstacles?",
     value |-> "Do you have any references or testimonials from previous clients who have undergone digital transformation with your company? What were their specific challenges, and how did your solutions address and overcome those obstacles?"],
    [text  |-> "Can you share any success stories or case studies of your digital transformation solutions in action? How did your company help a client achieve their goals through innovative technological advancements?",
     value |-> "Can you share any success stories or case studies of your digital transformation solutions in action? How did your company help a client achieve their goals through innovative technological advancements?"]
  >>

\* const EXAMPLES: ExampleModel[] = [ ... ]
EXAMPLES ==
  <<
    [text  |-> "Can you share any success stories or case studies of your digital transformation solutions in action? How did your company help a client achieve their goals through innovative technological advancements?",
     value |-> "Can you share any success stories or case studies of your digital transformation solutions in action? How did your company help a client achieve their goals through innovative technological advancements?"],
    [text  |-> "Do you have any references or testimonials from previous clients who have undergone digital transformation with your company? What were their specific challenges, and how did your solutions address and overcome those obstacles?",
     value |-> "Do you have any references or testimonials from previous clients who have undergone digital transformation with your company? What were their specific challenges, and how did your solutions address and overcome those obstacles?"],
    [text  |-> "I'm interested in learning about real-world examples of how your digital transformation services have made a significant impact on businesses. Could you provide a specific case study where your company's expertise revolutionized a client's operations, leading to increased efficiency, cost savings, or improved customer experience?",
     value |-> "I'm interested in learning about real-world examples of how your digital transformation services have made a significant impact on businesses. Could you provide a specific case study where your company's expertise revolutionized a client's operations, leading to increased efficiency, cost savings, or improved customer experience?"]
  >>

\* type ExampleModel = { text: string; value: string }.  Records for the
\* generalised collection: the scenario of the written specification
\* ({A, a1}, {B, b1}) and one record whose text is its value.
SampleRecords ==
  { [text |-> "A", value |-> "a1"],
    [text |-> "B", value |-> "b1"],
    [text |-> "A", value |-> "A"] }

\* Every ExampleModel[] over SampleRecords of at most MaxLen records,
\* the empty array and arrays with duplicate records included.
Collections ==
  UNION { [1..n -> SampleRecords] : n \in 0..MaxLen }

ValuesOf(xs) == { xs[i].value : i \in DOMAIN xs }

\* interface Props { onExampleClicked: (value: string) => void }
\* A callback is described by the arguments on which it throws: none, all
\* of them, or a single one.
Callbacks(xs) ==
  { [throwsOn |-> S] : S \in {{}, ValuesOf(xs)} \cup { {v} : v \in ValuesOf(xs) } }

Reverse(s) == [i \in 1..Len(s) |-> s[Len(s) + 1 - i]]

Last(s) == s[Len(s)]

(***************************************************************************)
(* The component                                                           *)
(***************************************************************************)

\* The props with value taken from the record's text.
ExampleProps_text(x, onExampleClicked) ==
  [text    |-> x.text,
   value   |-> x.text,
   onClick |-> [target |-> onExampleClicked, catches |-> FALSE]]

\* The props with the callback wrapped in a handler that swallows what the
\* callback throws.
ExampleProps_catching(x, onExampleClicked) ==
  [text    |-> x.text,
   value   |-> x.value,
   onClick |-> [target |-> onExampleClicked, catches |-> TRUE]]

\* <Example text={x.text} value={x.value} onClick={onExampleClicked} />
\* onClick is the caller's callback itself (target), forwarded with no
\* handler of the component around it (catches = FALSE).
ExampleProps(x, onExampleClicked) ==
  [text    |-> x.text,
   value   |-> x.value,
   onClick |-> [target |-> onExampleClicked, catches |-> FALSE]]

\* The list with every item given the value of the first record (the index
\* of the map dropped).
ExampleList_first(xs, onExampleClicked) ==
  [i \in 1..Len(xs) |->
     [key   |-> i - 1,
      props |-> ExampleProps([text |-> xs[i].text, value |-> xs[1].value],
                             onExampleClicked)]]

\* The list mapped from the array in reverse.
ExampleList_reversed(xs, onExampleClicked) ==
  [i \in 1..Len(xs) |->
     [key   |-> i - 1,
      props |-> ExampleProps(xs[Len(xs) + 1 - i], onExampleClicked)]]

\* The list with a placeholder item for an empty array.
ExampleList_placeholder(xs, onExampleClicked) ==
  IF xs = <<>>
    THEN << [key   |-> 0,
             props |-> ExampleProps([text |-> "", value |-> ""], onExampleClicked)] >>
    ELSE [i \in 1..Len(xs) |->
            [key |-> i - 1, props |-> ExampleProps(xs[i], onExampleClicked)]]

\* EXAMPLES.map((x, i) => <li key={i}><Example ... /></li>) inside the <ul>:
\* one item per record, in array order, keyed by the 0-based index.
ExampleList(xs, onExampleClicked) ==
  [i \in 1..Len(xs) |->
     [key   |-> i - 1,
      props |-> ExampleProps(xs[i], onExampleClicked)]]

\* Example shows its text prop as the item's label.
ExampleLabel(p) == p.text

Labels(d) == [i \in 1..Len(d) |-> ExampleLabel(d[i].props)]

\* Example's click handler: onClick(value), once, with nothing around it.
\* The invocation the caller's callback sees, and whether a failure of the
\* callback leaves the handler.
ExampleOnClick(p) ==
  LET threw == p.value \in p.onClick.target.throwsOn
  IN  [call    |-> [arg |-> p.value, result |-> IF threw THEN "threw" ELSE "returned"],
       escapes |-> threw /\ ~p.onClick.catches]

(***************************************************************************)
(* State machine                                                           *)
(***************************************************************************)

Mounted == renderLog # <<>>

\* The callback of the latest render.
CurrentCallback == Last(renderLog)

InitRest ==
  /\ dom = <<>>
  /\ renderLog = <<>>
  /\ calls = <<>>
  /\ activations = <<>>
  /\ uncaught = <<>>

\* Module load: the collection is the array literal.
Init == examples = EXAMPLES /\ InitRest

\* The component over any collection of Collections.
InitAny == examples \in Collections /\ InitRest

\* A render that reverses the array in place before mapping it
\* (EXAMPLES.reverse().map(...)).
Render_reverse(cb) ==
  /\ Len(renderLog) < MaxRenders
  /\ examples' = Reverse(examples)
  /\ dom' = ExampleList(examples', cb)
  /\ renderLog' = Append(renderLog, cb)
  /\ UNCHANGED <<calls, activations, uncaught>>

\* A render that calls the callback for every record instead of passing it
\* (onClick={onExampleClicked(x.value)}).
Render_calling(cb) ==
  /\ Len(renderLog) < MaxRenders
  /\ dom' = ExampleList(examples, cb)
  /\ renderLog' = Append(renderLog, cb)
  /\ calls' = calls \o [i \in 1..Len(examples) |->
                          [arg |-> examples[i].value, result |-> "returned"]]
  /\ UNCHANGED <<examples, activations, uncaught>>

\* A render that keeps the list of the first render (the list memoised
\* with no dependency on the callback).
Render_memoised(cb) ==
  /\ Len(renderLog) < MaxRenders
  /\ dom' = IF renderLog = <<>> THEN ExampleList(examples, cb) ELSE dom
  /\ renderLog' = Append(renderLog, cb)
  /\ UNCHANGED <<examples, calls, activations, uncaught>>

\* A render that adds its items to those of the previous render.
Render_appending(cb) ==
  /\ Len(renderLog) < MaxRenders
  /\ dom' = dom \o ExampleList(examples, cb)
  /\ renderLog' = Append(renderLog, cb)
  /\ UNCHANGED <<examples, calls, activations, uncaught>>

\* export const ExampleList = ({ onExampleClicked }: Props) => ...
\* One call of the component function by the host: the list is rebuilt from
\* EXAMPLES and the callback of this call; nothing else is read or written.
Render(cb) ==
  /\ Len(renderLog) < MaxRenders
  /\ dom' = ExampleList(examples, cb)
  /\ renderLog' = Append(renderLog, cb)
  /\ UNCHANGED <<examples, calls, activations, uncaught>>

\* The user activates item i of the rendered list.
Click(i) ==
  /\ Mounted
  /\ i \in DOMAIN dom
  /\ Len(calls) < MaxCalls
  /\ LET r == ExampleOnClick(dom[i].props)
     IN  /\ calls' = Append(calls, r.call)
         /\ uncaught' = IF r.escapes THEN Append(uncaught, r.call.arg) ELSE uncaught
  /\ activations' = Append(activations, i)
  /\ UNCHANGED <<examples, dom, renderLog>>

DoRender == \E cb \in Callbacks(examples) : Render(cb)

DoClick == \E i \in DOMAIN dom : Click(i)

Next == DoRender \/ DoClick

Spec == Init /\ [][Next]_vars

SpecAny == InitAny /\ [][Next]_vars

(***************************************************************************)
(* Properties                                                              *)
(***************************************************************************)

Args(cs) == [k \in 1..Len(cs) |-> cs[k].arg]

IsThrown(c) == c.result = "threw"

C2_OneItemPerRecordInOrder ==
  Mounted =>
    /\ Len(dom) = Len(EXAMPLES)
    /\ \A i \in 1..Len(EXAMPLES) :
         /\ ExampleLabel(dom[i].props) = EXAMPLES[i].text
         /\ dom[i].key = i - 1

\* The three records are rendered.
C2_Witness ==
  /\ Mounted
  /\ Len(dom) = 3
  /\ ExampleLabel(dom[2].props) = EXAMPLES[2].text
  /\ ExampleLabel(dom[2].props) # ExampleLabel(dom[1].props)

\* C3: an activation of item i never invokes the callback with the value
\* of a record j other than i.
C3_NoOtherRecordsValue ==
  \A k \in DOMAIN calls :
    \A j \in DOMAIN examples :
      j # activations[k] => calls[k].arg # examples[j].value

\* An item other than the first was activated and the callback invoked.
C3_Witness ==
  \E k \in DOMAIN calls : activations[k] = 2 /\ calls[k].arg = EXAMPLES[2].value

\* C4: the callback's invocations are, in order, the values of the
\* activated items: one invocation per activation, in the user's order.
C4_CallsFollowActivations ==
  Args(calls) = [k \in 1..Len(activations) |-> examples[activations[k]].value]

\* Two different items were activated one after the other.
C4_Witness ==
  /\ Len(activations) >= 2
  /\ activations[1] = 3
  /\ activations[2] = 1
  /\ Len(calls) >= 2

\* C5: the collection is the array of module load, whatever renders and
\* activations have happened.
C5_CollectionNeverMutated ==
  examples = EXAMPLES

\* The list was rendered twice and items were activated.
C5_Witness ==
  /\ Len(renderLog) >= 2
  /\ Len(activations) >= 2
  /\ examples = EXAMPLES

\* C6: over an empty collection a render produces no item, the callback is
\* never invoked and no failure arises.
C6_EmptyCollection ==
  examples = <<>> =>
    /\ dom = <<>>
    /\ calls = <<>>
    /\ activations = <<>>
    /\ uncaught = <<>>
    /\ ~ ENABLED DoClick

\* The empty collection has been rendered.
C6_Witness ==
  examples = <<>> /\ Mounted /\ dom = <<>>

\* C7: a render invokes no callback and changes nothing but the list it
\* returns, which is a function of the collection and of the callback of
\* that render only.
C7_RenderHasNoOtherEffect ==
  [][DoRender =>
       /\ calls' = calls
       /\ activations' = activations
       /\ uncaught' = uncaught
       /\ examples' = examples
       /\ dom' = ExampleList(examples, Last(renderLog'))]_vars

\* Rendered more than once, with different callbacks, and no activation.
C7_Witness ==
  /\ Len(renderLog) >= 2
  /\ renderLog[1] # renderLog[2]
  /\ calls = <<>>
  /\ activations = <<>>

\* C8: a render with the callback of the previous render produces the same
\* list: the same number of items with the same labels in the same order.
C8_RenderIdempotent ==
  [][\A cb \in Callbacks(examples) :
       (Mounted /\ cb = CurrentCallback /\ Render(cb)) =>
         /\ Len(dom') = Len(dom)
         /\ Labels(dom') = Labels(dom)
         /\ dom' = dom]_vars

\* The list was rendered again with the callback of the render before.
C8_Witness ==
  /\ Len(renderLog) >= 2
  /\ renderLog[2] = renderLog[1]
  /\ Len(dom) = 3

\* C9: every failure of the callback reaches the embedding application
\* (none is caught by the component), and after a failure the collection,
\* the rendered list and the following activations are what they would be
\* without it.
C9_FailureSurfacesUnhandled ==
  /\ uncaught = Args(SelectSeq(calls, IsThrown))
  /\ examples = EXAMPLES
  /\ Mounted => dom = ExampleList(EXAMPLES, CurrentCallback)
  /\ \A k \in DOMAIN calls : calls[k].arg = EXAMPLES[activations[k]].value
  /\ (Mounted /\ Len(calls) < MaxCalls) => ENABLED DoClick
  /\ Len(renderLog) < MaxRenders => ENABLED DoRender

\* The callback threw, and a later activation invoked it again.
C9_Witness ==
  \E k \in DOMAIN calls :
    /\ calls[k].result = "threw"
    /\ k < Len(calls)
    /\ calls[k + 1].result = "returned"
    /\ uncaught = <<calls[k].arg>>

\* C10: EXAMPLES holds three records with pairwise distinct values, each
\* with its text equal to its value; so every argument of the callback is
\* one of the three strings, is the value of the activated record only, and
\* is the label of the activated item.
C10_ThreeDistinctSelfLabelled ==
  /\ Len(examples) = 3
  /\ \A i, j \in DOMAIN examples :
       examples[i].value = examples[j].value => i = j
  /\ \A i \in DOMAIN examples : examples[i].text = examples[i].value
  /\ \A k \in DOMAIN calls :
       /\ calls[k].arg \in ValuesOf(examples)
       /\ \A i \in DOMAIN examples :
            examples[i].value = calls[k].arg <=> i = activations[k]
       /\ calls[k].arg = ExampleLabel(dom[activations[k]].props)

\* Every one of the three items has been activated.
C10_Witness ==
  /\ Len(calls) = 3
  /\ { activations[k] : k \in DOMAIN activations } = {1, 2, 3}
  /\ { calls[k].arg : k \in DOMAIN calls } = ValuesOf(EXAMPLES)

====
